---- MODULE Spec2Model ----
(***************************************************************************)
(* Response translator and wait-state engine of GPX (src/gpx/gpxresp.c).   *)
(*                                                                         *)
(* The translation buffer is a sequence of text tokens; "NL" is the        *)
(* newline character, every other token is a run of characters holding no  *)
(* newline.  The wait flags are the bit-fields that share storage with     *)
(* tio.waiting, the session flags those that share storage with tio.flags. *)
(***************************************************************************)
EXTENDS Integers, Sequences, FiniteSets, TLC

VARIABLES
    pc,             \* where gpx_daemon is: "read", or inside gpx_convert_line
                    \* for the host line ("core") or the implicit M105 ("m105")
    translation,    \* tio.translation[0 .. tio.cur)
    flag,           \* tio.flag: the session flags that are set
    waitflag,       \* tio.waitflag: the wait flags that are set
    sec,            \* tio.sec
    sttb,           \* tio.sttb: the cached file names, in order
    programState,   \* gpx->flag.programState
    positionKnown,  \* gpx->axis.positionKnown
    recorded,       \* axes of gpx->current.position written from a device reply
    command_m,      \* gpx->command.m when M_IS_SET, 0 otherwise
    selectedFilename, \* gpx->selectedFilename
    waiting_core,   \* local `waiting` of gpx_write_string_core
    waiting_rt,     \* local `waiting` of gpx_return_translation
    overflow,       \* local `overflow` of gpx_daemon
    inrest,         \* characters of the current host line not read yet, -1: none
    rval,           \* what the last callback returned to the command parser
    ncalls,         \* callbacks made by the gpx_convert_line that is running
    lastcall,       \* the last callback: its kind and what reached port_handler
    lastline,       \* the last line dispatched: what its locals and status were
    lineresp,       \* responses written upstream for the current host line
    lineread,       \* whether the daemon has read a host line
    heap,           \* tio.sttb.rgs != NULL, and the allocations of the string
                    \* table that have not been freed
    cur,            \* tio->cur as tio_vprintf computes it
    terminator,     \* where tio_vprintf left the NUL in tio->translation
    result          \* what the last tio_vprintf returned

vars == <<pc, translation, flag, waitflag, sec, sttb, programState,
          positionKnown, recorded, command_m, selectedFilename, waiting_core,
          waiting_rt, overflow, inrest, rval, ncalls, lastcall, lastline,
          lineresp, lineread, heap, cur, terminator, result>>

\* the cursor of the translation buffer, for the arithmetic of tio_vprintf
cursor == <<cur, terminator, result>>

\* everything but the cursor
session == <<pc, translation, flag, waitflag, sec, sttb, programState,
             positionKnown, recorded, command_m, selectedFilename, waiting_core,
             waiting_rt, overflow, inrest, rval, ncalls, lastcall, lastline,
             lineresp, lineread, heap>>

----------------------------------------------------------------------------
(* Bounds of the model *)

\* callbacks the external command parser makes while converting one line
MaxCalls == 3

\* file names the SD card holds
MaxFiles == 2

\* backing arrays of the string table that are allocated at one time
MaxArrays == 3

\* the clock's reading when an SD print is started
StartTime == 5

\* sizeof(tio->translation), and the longest text of one append
TranslationSize == 8
MaxText == 12

----------------------------------------------------------------------------
(* Names *)

WaitFlagNames == {"waitForEmptyQueue", "waitForButton", "waitForStart",
                  "waitForExtruderA", "waitForExtruderB", "waitForPlatform",
                  "waitForBuffer", "waitForBotCancel", "waitForUnpause",
                  "waitForCancelSync"}

FlagNames == {"listingFiles", "getPosWhenReady", "okPending", "cancelPending",
              "waitClearedByCancel"}

READY_STATE == 0
RUNNING_STATE == 1
ENDED_STATE == 2

BUILD_NONE == 0
BUILD_RUNNING == 1
BUILD_FINISHED_NORMALLY == 2
BUILD_PAUSED == 3
BUILD_CANCELED == 4
BUILD_CANCELLING == 5

Axes == {"X", "Y", "Z", "A", "B"}

\* bit of each wait flag in the word it shares with tio.waiting
WaitBit(f) ==
    CASE f = "waitForEmptyQueue" -> 1
      [] f = "waitForButton"     -> 2
      [] f = "waitForStart"      -> 4
      [] f = "waitForExtruderA"  -> 8
      [] f = "waitForExtruderB"  -> 16
      [] f = "waitForPlatform"   -> 32
      [] f = "waitForBuffer"     -> 64
      [] f = "waitForBotCancel"  -> 128
      [] f = "waitForUnpause"    -> 256
      [] f = "waitForCancelSync" -> 512

RECURSIVE SumBits(_)
SumBits(S) ==
    IF S = {} THEN 0
    ELSE LET f == CHOOSE x \in S : TRUE IN WaitBit(f) + SumBits(S \ {f})

\* an unsigned that overlays all the wait bit-fields but waitForUnpause
waiting_without_unpause(wf) == SumBits(wf \ {"waitForUnpause"})

\* tio.waiting: the unsigned that overlays the wait bit-fields
waiting_of(wf) == SumBits(wf)

\* gpx->machine.extruder_count of the default machine "r2"
extruder_count == 1

----------------------------------------------------------------------------
(* Return codes.  They are kept by name; only equality is used on them. *)

SerialCodes == {"ESIOWRITE", "ESIOREAD", "ESIOFRAME", "ESIOCRC"}

\* what port_handler can return besides SUCCESS
PortErrors == {"ESIOTIMEOUT", "0x82", "0x89"}

\* what gpx_convert_line can return without any callback having failed
ParserCodes == {"SUCCESS", "END_OF_FILE", "ERROR"}

----------------------------------------------------------------------------
(* The translation buffer *)

\* vsnprintf(buffer + at, size, ...) of a text of n characters: where it
\* leaves the NUL, having written at most size - 1 characters
vsnprintf_end(at, size, n) == at + (IF n < size THEN n ELSE size - 1)

\* tio_vprintf on the cursor c alone, for a text of n characters
tio_vprintf(c, n) ==
    IF c.cur >= TranslationSize
    THEN [c EXCEPT !.result = 0]
    ELSE [cur |-> IF n > 0 THEN c.cur + n ELSE c.cur,
          terminator |-> vsnprintf_end(c.cur, TranslationSize - c.cur, n),
          result |-> n]

\* tio_printf: append formatted text at the cursor
tio_printf(s, toks) == [s EXCEPT !.translation = @ \o toks]

\* a reset that keeps what the line has printed
tio_reset_keeping_text(s) == s

\* tio->cur = 0; tio->translation[0] = 0
tio_reset(s) == [s EXCEPT !.translation = <<>>]

\* tio.cur > 0 && tio.translation[tio.cur - 1] == '\n'
EndsInNewline(tr) == Len(tr) > 0 /\ tr[Len(tr)] = "NL"

\* tio.cur > 0 && tio.translation[tio.cur - 1] != '\n'
EndsInText(tr) == Len(tr) > 0 /\ tr[Len(tr)] # "NL"

SetWait(s, f) == [s EXCEPT !.waitflag = @ \cup {f}]
ClearWait(s, f) == [s EXCEPT !.waitflag = @ \ {f}]
PutWait(s, f, b) == IF b THEN SetWait(s, f) ELSE ClearWait(s, f)
SetFlag(s, f) == [s EXCEPT !.flag = @ \cup {f}]
ClearFlag(s, f) == [s EXCEPT !.flag = @ \ {f}]
Return(s, r) == [s EXCEPT !.rval = r]

----------------------------------------------------------------------------
(* tio_clear_state_for_cancel *)

\* a cancel reset that leaves the wait flags as they are
clear_state_keeping_waits(s) ==
    LET s1 == [s EXCEPT !.programState = READY_STATE, !.positionKnown = {}]
        s2 == IF waiting_of(s1.waitflag) # 0
              THEN SetFlag(s1, "waitClearedByCancel") ELSE s1
    IN  ClearFlag(SetWait(s2, "waitForEmptyQueue"), "getPosWhenReady")

tio_clear_state_for_cancel(s) ==
    LET s1 == [s EXCEPT !.programState = READY_STATE, !.positionKnown = {}]
        s2 == IF waiting_of(s1.waitflag) # 0
              THEN SetFlag(s1, "waitClearedByCancel") ELSE s1
        s3 == [s2 EXCEPT !.waitflag = {}]           \* tio->waiting = 0
        s4 == SetWait(s3, "waitForEmptyQueue")
    IN  ClearFlag(s4, "getPosWhenReady")

----------------------------------------------------------------------------
(* The string table tio.sttb: the names it holds, in order, and in heap the *)
(* backing arrays and string copies that were allocated and not yet freed   *)

\* sttb_init: a new backing array for an empty table
sttb_init(s) ==
    [s EXCEPT !.sttb = <<>>,
              !.heap = [@ EXCEPT !.rgs = TRUE, !.arrays = @ + 1]]

\* sttb_cleanup: free every string, then the backing array
sttb_cleanup(s) ==
    IF ~s.heap.rgs THEN s
    ELSE [s EXCEPT !.sttb = <<>>,
                   !.heap = [rgs |-> FALSE, arrays |-> @.arrays - 1,
                             strings |-> @.strings - Len(s.sttb)]]

\* sttb_add: append a copy of the name
sttb_add(s, name) ==
    IF ~s.heap.rgs THEN s
    ELSE [s EXCEPT !.sttb = Append(@, name), !.heap.strings = @ + 1]

\* tio_cleanup
tio_cleanup(s) ==
    LET s1 == IF Len(s.sttb) > 0 THEN sttb_init(sttb_cleanup(s)) ELSE s
    IN  [s1 EXCEPT !.sec = 0, !.waitflag = {}, !.flag = {}]

----------------------------------------------------------------------------
(* translate_extruder_query_response *)

\* a translation that takes a target of zero at its word in any wait
translate_extruder_query_response_any_wait(s, r) ==
    LET extruder_id == r.extruder
        q == r.query
    IN
    CASE q = 2 ->
            tio_printf(s, <<" T">>
                \o (IF extruder_count > 1 THEN <<ToString(extruder_id)>> ELSE <<>>)
                \o <<":" \o ToString(r.temperature)>>)
      [] q = 22 ->
            IF extruder_id # 0
            THEN PutWait(s, "waitForExtruderB", ~r.isReady)
            ELSE PutWait(s, "waitForExtruderA", ~r.isReady)
      [] q = 30 -> tio_printf(s, <<" B:" \o ToString(r.temperature)>>)
      [] q = 32 ->
            LET s1 == IF /\ waiting_of(s.waitflag) # 0
                         /\ r.temperature = 0
                      THEN IF extruder_id # 0
                           THEN ClearWait(s, "waitForExtruderB")
                           ELSE ClearWait(s, "waitForExtruderA")
                      ELSE s
            IN  tio_printf(s1, <<" /" \o ToString(r.temperature)>>)
      [] q = 33 ->
            LET s1 == IF /\ waiting_of(s.waitflag) # 0
                         /\ r.temperature = 0
                      THEN ClearWait(s, "waitForPlatform")
                      ELSE s
            IN  tio_printf(s1, <<" /" \o ToString(r.temperature)>>)
      [] q = 35 -> PutWait(s, "waitForPlatform", ~r.isReady)
      [] OTHER -> s

translate_extruder_query_response(s, r) ==
    LET extruder_id == r.extruder
        q == r.query
    IN
    CASE q = 2 ->
            tio_printf(s, <<" T">>
                \o (IF extruder_count > 1 THEN <<ToString(extruder_id)>> ELSE <<>>)
                \o <<":" \o ToString(r.temperature)>>)
      [] q = 22 ->
            IF extruder_id # 0
            THEN PutWait(s, "waitForExtruderB", ~r.isReady)
            ELSE PutWait(s, "waitForExtruderA", ~r.isReady)
      [] q = 30 -> tio_printf(s, <<" B:" \o ToString(r.temperature)>>)
      [] q = 32 ->
            LET s1 == IF /\ waiting_of(s.waitflag) # 0
                         /\ "waitForEmptyQueue" \notin s.waitflag
                         /\ r.temperature = 0
                      THEN IF extruder_id # 0
                           THEN ClearWait(s, "waitForExtruderB")
                           ELSE ClearWait(s, "waitForExtruderA")
                      ELSE s
            IN  tio_printf(s1, <<" /" \o ToString(r.temperature)>>)
      [] q = 33 ->
            LET s1 == IF /\ waiting_of(s.waitflag) # 0
                         /\ "waitForEmptyQueue" \notin s.waitflag
                         /\ r.temperature = 0
                      THEN ClearWait(s, "waitForPlatform")
                      ELSE s
            IN  tio_printf(s1, <<" /" \o ToString(r.temperature)>>)
      [] q = 35 -> PutWait(s, "waitForPlatform", ~r.isReady)
      [] OTHER -> s

----------------------------------------------------------------------------
(* translate_handler: the callback the command parser makes for each        *)
(* device packet (r.length > 0) or for a command that has none.  s is the   *)
(* session, r the packet with what port_handler decodes from its reply.     *)

\* the "ok" owed to the host is written as soon as anything is translated
ConsumeOkPending(s) ==
    IF "okPending" \in s.flag
    THEN tio_printf(ClearFlag(s, "okPending"), <<"ok">>)
    ELSE s

\* an M23 that answers with the last cached name that matches
SelectFile_last_match(s) ==
    LET hits == {i \in 1..Len(s.sttb) : s.sttb[i].fold = s.selectedFilename.fold}
        i == IF hits = {} THEN 0
             ELSE CHOOSE k \in hits : \A j \in hits : k >= j
        s1 == IF i > 0 THEN [s EXCEPT !.selectedFilename = s.sttb[i]] ELSE s
    IN  tio_printf(s1, <<"NL", "File opened:", s1.selectedFilename.text, " Size:0",
                         "NL", "File selected:", s1.selectedFilename.text>>)

\* M23: answer with the cached spelling of the file name
SelectFile(s) ==
    LET hits == {i \in 1..Len(s.sttb) : s.sttb[i].fold = s.selectedFilename.fold}
        i == IF hits = {} THEN 0
             ELSE CHOOSE k \in hits : \A j \in hits : k <= j   \* sttb_find_nocase
        s1 == IF i > 0 THEN [s EXCEPT !.selectedFilename = s.sttb[i]] ELSE s
    IN  tio_printf(s1, <<"NL", "File opened:", s1.selectedFilename.text, " Size:0",
                         "NL", "File selected:", s1.selectedFilename.text>>)

IsQueueable(command) == command >= 128         \* command & 0x80

\* an M27 branch that reports the status it sees after a clock jump
BuildStatusM27_reporting_jump(s, r) ==
    IF s.sec # 0 /\ r.build # 1 /\ r.t < s.sec /\ s.sec - r.t <= 4
    THEN s
    ELSE LET s0 == IF s.sec # 0 /\ r.build # 1 /\ r.t < s.sec
                   THEN ClearWait([s EXCEPT !.sec = 0], "waitForStart") ELSE s
         IN
         CASE r.build = BUILD_NONE ->
                tio_printf(s0, <<"NL", "Not SD printing", "NL">>)
           [] r.build = BUILD_RUNNING ->
                tio_printf(ClearWait([s0 EXCEPT !.sec = 0], "waitForStart"),
                           <<"NL", "SD printing byte on line N/0">>)
           [] r.build = BUILD_CANCELED ->
                LET s1 == tio_printf(s0, <<"NL", "SD printing cancelled.", "NL">>)
                    s2 == ClearFlag([s1 EXCEPT !.waitflag = {}], "getPosWhenReady")
                IN  tio_printf(s2, <<"NL", "Done printing file", "NL">>)
           [] r.build = BUILD_FINISHED_NORMALLY ->
                tio_printf(s0, <<"NL", "Done printing file", "NL">>)
           [] r.build = BUILD_PAUSED ->
                tio_printf(s0, <<"NL", "SD printing paused at line N", "NL">>)
           [] r.build = BUILD_CANCELLING ->
                tio_printf(s0, <<"NL", "SD printing sleeping at line N", "NL">>)
           [] OTHER -> s0

\* an M27 branch whose case for CANCELED ends in a break
BuildStatusM27_no_fall_through(s, r) ==
    IF s.sec # 0 /\ r.build # 1 /\ r.t < s.sec
    THEN IF s.sec - r.t > 4
         THEN ClearWait([s EXCEPT !.sec = 0], "waitForStart")
         ELSE s
    ELSE CASE r.build = BUILD_NONE ->
                tio_printf(s, <<"NL", "Not SD printing", "NL">>)
           [] r.build = BUILD_RUNNING ->
                tio_printf(ClearWait([s EXCEPT !.sec = 0], "waitForStart"),
                           <<"NL", "SD printing byte on line N/0">>)
           [] r.build = BUILD_CANCELED ->
                LET s1 == tio_printf(s, <<"NL", "SD printing cancelled.", "NL">>)
                IN  ClearFlag([s1 EXCEPT !.waitflag = {}], "getPosWhenReady")
           [] r.build = BUILD_FINISHED_NORMALLY ->
                tio_printf(s, <<"NL", "Done printing file", "NL">>)
           [] r.build = BUILD_PAUSED ->
                tio_printf(s, <<"NL", "SD printing paused at line N", "NL">>)
           [] r.build = BUILD_CANCELLING ->
                tio_printf(s, <<"NL", "SD printing sleeping at line N", "NL">>)
           [] OTHER -> s

\* case 24 of translate_handler, the M27 branch
BuildStatusM27(s, r) ==
    IF s.sec # 0 /\ r.build # 1 /\ r.t < s.sec
    THEN IF s.sec - r.t > 4
         THEN ClearWait([s EXCEPT !.sec = 0], "waitForStart")
         ELSE s
    ELSE CASE r.build = BUILD_NONE ->
                tio_printf(s, <<"NL", "Not SD printing", "NL">>)
           [] r.build = BUILD_RUNNING ->
                tio_printf(ClearWait([s EXCEPT !.sec = 0], "waitForStart"),
                           <<"NL", "SD printing byte on line N/0">>)
           [] r.build = BUILD_CANCELED ->
                LET s1 == tio_printf(s, <<"NL", "SD printing cancelled.", "NL">>)
                    s2 == ClearFlag([s1 EXCEPT !.waitflag = {}], "getPosWhenReady")
                IN  tio_printf(s2, <<"NL", "Done printing file", "NL">>)
           [] r.build = BUILD_FINISHED_NORMALLY ->
                tio_printf(s, <<"NL", "Done printing file", "NL">>)
           [] r.build = BUILD_PAUSED ->
                tio_printf(s, <<"NL", "SD printing paused at line N", "NL">>)
           [] r.build = BUILD_CANCELLING ->
                tio_printf(s, <<"NL", "SD printing sleeping at line N", "NL">>)
           [] OTHER -> s

\* a routine check that never asks for the queue to drain
BuildStatusRoutine_unpause_only(s, r) ==
    CASE r.build = BUILD_PAUSED ->
            tio_printf(SetWait(s, "waitForUnpause"),
                <<"NL", "// echo: Waiting for unpause button on the LCD panel", "NL">>)
      [] OTHER -> ClearWait(s, "waitForUnpause")

\* case 24 of translate_handler, the routine check
BuildStatusRoutine(s, r) ==
    CASE r.build \in {BUILD_NONE, BUILD_RUNNING} ->
            LET s1 == IF "waitForUnpause" \in s.waitflag
                      THEN SetWait(s, "waitForEmptyQueue") ELSE s
            IN  ClearWait(s1, "waitForUnpause")
      [] r.build = BUILD_PAUSED ->
            tio_printf(SetWait(s, "waitForUnpause"),
                <<"NL", "// echo: Waiting for unpause button on the LCD panel", "NL">>)
      [] OTHER -> ClearWait(s, "waitForUnpause")

\* a case 24 that leaves waitForBotCancel to the device's 0x89
BuildStatus_keeping_bot_cancel(s, r) ==
    IF "waitForStart" \in s.waitflag \/ s.command_m = 27
    THEN BuildStatusM27(s, r)
    ELSE BuildStatusRoutine(s, r)

\* case 24 of translate_handler
BuildStatus(s, r) ==
    LET s1 == IF /\ "waitForBotCancel" \in s.waitflag
                 /\ r.build \notin {BUILD_RUNNING, BUILD_PAUSED, BUILD_CANCELLING}
              THEN ClearWait(s, "waitForBotCancel") ELSE s
    IN  IF "waitForStart" \in s1.waitflag \/ s1.command_m = 27
        THEN BuildStatusM27(s1, r)
        ELSE BuildStatusRoutine(s1, r)

\* a case 18 that opens the list at every reply
NextFilename_begin_each_reply(s, r) ==
    IF "listingFiles" \notin s.flag /\ s.command_m = 21
    THEN IF r.sdstatus = 0
         THEN tio_printf(s, <<"NL", "SD card ok">>)
         ELSE tio_printf(s, <<"NL", "SD init fail">>)
    ELSE LET a == SetFlag(tio_printf(s, <<"NL", "Begin file list", "NL">>),
                          "listingFiles")
             s1 == IF "listingFiles" \notin s.flag
                   THEN sttb_init(IF Len(a.sttb) > 0 THEN sttb_cleanup(a) ELSE a)
                   ELSE a
         IN  IF r.filename.text = ""
             THEN ClearFlag(tio_printf(s1, <<"End file list">>), "listingFiles")
             ELSE sttb_add(tio_printf(s1, <<r.filename.text>>), r.filename)

\* case 18 of translate_handler
NextFilename(s, r) ==
    IF "listingFiles" \notin s.flag /\ s.command_m = 21
    THEN IF r.sdstatus = 0
         THEN tio_printf(s, <<"NL", "SD card ok">>)
         ELSE tio_printf(s, <<"NL", "SD init fail">>)
    ELSE LET s1 == IF "listingFiles" \notin s.flag
                   THEN LET a == SetFlag(
                                   tio_printf(s, <<"NL", "Begin file list", "NL">>),
                                   "listingFiles")
                        IN  sttb_init(IF Len(a.sttb) > 0 THEN sttb_cleanup(a) ELSE a)
                   ELSE s
         IN  IF r.filename.text = ""
             THEN ClearFlag(tio_printf(s1, <<"End file list">>), "listingFiles")
             ELSE sttb_add(tio_printf(s1, <<r.filename.text>>), r.filename)

\* case 23 of translate_handler
MotherboardStatus(s, r) ==
    IF r.mb = {}
    THEN ClearWait(s, "waitForButton")
    ELSE IF "buildCancelling" \in r.mb
    THEN Return(s, "0x89")
    ELSE IF "heatShutdown" \in r.mb
    THEN Return(tio_printf(tio_reset(s),
            <<"Error:  Heaters were shutdown after 30 minutes of inactivity">>), "0x89")
    ELSE IF "powerError" \in r.mb
    THEN Return(tio_printf(tio_reset(s),
            <<"Error:  Error detected in system power">>), "0x89")
    ELSE s

RECURSIVE translate_handler(_, _)

\* a case 21 that records the device's value for every axis
ExtendedPosition_all_axes(s) ==
    LET s1 == tio_printf(s, <<" X:Y:Z:E:">>)
    IN  IF "getPosWhenReady" \in s1.flag
        THEN [s1 EXCEPT !.recorded = @ \cup Axes]
        ELSE s1

\* case 21 of translate_handler
ExtendedPosition(s) ==
    LET s1 == tio_printf(s, <<" X:Y:Z:E:">>)
    IN  IF "getPosWhenReady" \in s1.flag
        THEN [s1 EXCEPT !.recorded = @ \cup (Axes \ s1.positionKnown)]
        ELSE s1

\* get_extended_position(gpx): the parser sends device command 21 and hands
\* it to the callback before it returns; r.ph2 is what the port makes of it
get_extended_position(s, r) ==
    translate_handler(s, [r EXCEPT !.command = 21, !.ph = r.ph2])

\* the switch (command) of translate_handler, after port_handler succeeded
TranslateCommand(s, r) ==
    LET command == r.command IN
    CASE command \in {3, 7, 17} ->
            SetWait([s EXCEPT !.waitflag = {}], "waitForBotCancel")
      [] command = 10 -> translate_extruder_query_response(s, r)
      [] command = 11 ->
            IF r.isReady
            THEN LET s1 == ClearWait(ClearWait(s, "waitForEmptyQueue"), "waitForButton")
                 IN  IF "getPosWhenReady" \in s1.flag
                     THEN \* get_extended_position(gpx): its result is dropped
                          LET s2 == get_extended_position(s1, r)
                          IN  ClearFlag(Return(s2, "SUCCESS"), "getPosWhenReady")
                     ELSE s1
            ELSE s
      [] command = 14 ->
            IF r.arg THEN tio_printf(s, <<"NL", "Writing to file: ARG">>) ELSE s
      [] command = 15 -> tio_printf(s, <<"NL", "Done saving file">>)
      [] command = 16 ->
            IF r.sdstatus = 7
            THEN tio_printf(s, <<"NL", "Error:  Not SD printing file not found">>)
            ELSE SetWait([tio_reset(s) EXCEPT !.sec = r.t + 3], "waitForStart")
      [] command = 18 -> NextFilename(s, r)
      [] command = 21 -> ExtendedPosition(s)
      [] command = 23 -> MotherboardStatus(s, r)
      [] command = 24 -> BuildStatus(s, r)
      [] command = 27 ->
            IF s.command_m = 115
            THEN tio_printf(s, <<" PROTOCOL_VERSION:0.1 FIRMWARE_NAME:", "NL">>)
            ELSE tio_printf(s, <<" VARIANT vN.N">>)
      [] command = 135 ->
            IF r.extruder = 0
            THEN SetWait(SetWait(tio_reset(s), "waitForExtruderA"), "waitForEmptyQueue")
            ELSE SetWait(SetWait(tio_reset(s), "waitForExtruderB"), "waitForEmptyQueue")
      [] command = 141 ->
            SetWait(SetWait(tio_reset(s), "waitForPlatform"), "waitForEmptyQueue")
      [] command \in {144, 131, 132} ->
            SetFlag(SetWait(tio_reset(s), "waitForEmptyQueue"), "getPosWhenReady")
      [] command = 133 -> SetWait(tio_reset(s), "waitForEmptyQueue")
      [] command \in {148, 149} -> SetWait(tio_reset(s), "waitForButton")
      [] OTHER -> s

\* a translate_handler that has no bit bucket: every packet reaches the port
translate_handler_forwarding(s, r) ==
    LET s0 == ConsumeOkPending(Return(s, "SUCCESS")) IN
    IF r.length = 0
    THEN IF s0.command_m = 23 THEN SelectFile(s0) ELSE s0
    ELSE LET s1 == [s0 EXCEPT !.fwd = Append(@, r.command)]
         IN  IF r.ph # "SUCCESS"
             THEN Return(s1, r.ph)
             ELSE TranslateCommand(
                    IF IsQueueable(r.command) THEN ClearWait(s1, "waitForBuffer") ELSE s1,
                    r)

\* a translate_handler that discards the line's text when the port fails
translate_handler_resetting_on_failure(s, r) ==
    LET s0 == ConsumeOkPending(Return(s, "SUCCESS")) IN
    IF r.length = 0
    THEN IF s0.command_m = 23 THEN SelectFile(s0) ELSE s0
    ELSE IF "cancelPending" \in s0.flag /\ IsQueueable(r.command)
    THEN s0
    ELSE LET s1 == [s0 EXCEPT !.fwd = Append(@, r.command)]
         IN  IF r.ph # "SUCCESS"
             THEN Return(tio_reset(s1), r.ph)
             ELSE TranslateCommand(
                    IF IsQueueable(r.command) THEN ClearWait(s1, "waitForBuffer") ELSE s1,
                    r)

translate_handler(s, r) ==
    LET s0 == ConsumeOkPending(Return(s, "SUCCESS")) IN
    IF r.length = 0
    THEN IF s0.command_m = 23 THEN SelectFile(s0) ELSE s0
    ELSE IF "cancelPending" \in s0.flag /\ IsQueueable(r.command)
    THEN s0
    ELSE LET s1 == [s0 EXCEPT !.fwd = Append(@, r.command)]   \* port_handler
         IN  IF r.ph # "SUCCESS"
             THEN Return(s1, r.ph)
             ELSE TranslateCommand(
                    IF IsQueueable(r.command) THEN ClearWait(s1, "waitForBuffer") ELSE s1,
                    r)

----------------------------------------------------------------------------
(* translate_result: the callback for a message of the command parser *)

\* a translate_result that treats @clear_cancel after the pending ok
translate_result_ok_first(s, fmt) ==
    LET s1 == ConsumeOkPending(s) IN
    IF fmt = "@clear_cancel"
    THEN IF "cancelPending" \notin s1.flag /\ s1.programState = RUNNING_STATE
         THEN SetWait(s1, "waitForCancelSync")
         ELSE SetWait(ClearFlag(s1, "cancelPending"), "waitForEmptyQueue")
    ELSE LET s2 == IF EndsInText(s1.translation) THEN tio_printf(s1, <<"NL">>) ELSE s1
         IN  tio_printf(s2, <<"// echo: ", fmt>>)

translate_result(s, fmt) ==
    IF fmt = "@clear_cancel"
    THEN IF "cancelPending" \notin s.flag /\ s.programState = RUNNING_STATE
         THEN SetWait(s, "waitForCancelSync")
         ELSE SetWait(ClearFlag(s, "cancelPending"), "waitForEmptyQueue")
    ELSE LET s1 == ConsumeOkPending(s)
             s2 == IF EndsInText(s1.translation) THEN tio_printf(s1, <<"NL">>) ELSE s1
         IN  tio_printf(s2, <<"// echo: ", fmt>>)

----------------------------------------------------------------------------
(* gpx_write_string_core, after gpx_convert_line returned; w is the value  *)
(* tio.waiting had before the line was converted                            *)

write_string_core_end(s, w) ==
    LET s1 == IF "okPending" \in s.flag
              THEN tio_printf(s, <<"ok">>)
              ELSE IF waiting_of(s.waitflag) = 0 /\ w # 0
                   THEN tio_printf(s, <<"NL", "ok">>)
                   ELSE s
    IN  ClearFlag(s1, "okPending")

----------------------------------------------------------------------------
(* gpx_return_translation *)

\* the head: ENDED -> READY
return_translation_begin(s) ==
    IF s.programState > RUNNING_STATE
    THEN [s EXCEPT !.programState = READY_STATE] ELSE s

\* a poll whenever the session waits, whatever the line has printed
NeedsImplicitM105_any_output(s) ==
    /\ s.rval = "SUCCESS"
    /\ waiting_of(s.waitflag) # 0

\* rval == SUCCESS && tio.waiting && tio.cur == 0
NeedsImplicitM105(s) ==
    /\ s.rval = "SUCCESS"
    /\ waiting_of(s.waitflag) # 0
    /\ Len(s.translation) = 0

\* the statuses that gpx_return_translation renders as an Error line
ErrorCodes ==
    {"EOSERROR", "ERROR", "ESIOTIMEOUT", "0x80", "0x83", "0x84", "0x85", "0x87",
     "0x88", "0x8B", "0x8C", "0x8D"} \cup SerialCodes

ErrorText(code) ==
    CASE code = "EOSERROR"    -> "Error: OS error trying to access X3G port"
      [] code = "ERROR"       -> "Error: GPX error"
      [] code \in SerialCodes -> "Error: Serial communication error on X3G port. code = "
      [] code = "ESIOTIMEOUT" -> "Error: Timeout on X3G port"
      [] code = "0x80" -> "Error: X3G generic packet error"
      [] code = "0x83" -> "Error: X3G checksum mismatch"
      [] code = "0x84" -> "Error: X3G query packet too big"
      [] code = "0x85" -> "Error: X3G command not supported or recognized"
      [] code = "0x87" -> "Error: X3G timeout downstream"
      [] code = "0x88" -> "Error: X3G timeout for tool lock"
      [] code = "0x8A" -> "SD printing"
      [] code = "0x8B" -> "Error: RC_BOT_OVERHEAT Printer reports overheat condition"
      [] code = "0x8C" -> "Error: timeout"
      [] OTHER         -> "Error: Unknown error code: "

\* the statuses for which gpx_return_translation starts the response afresh
StatusCodes == ErrorCodes \cup {"0x8A"}

\* a switch (rval) that adds the status line to the text of the line
return_translation_switch_keeping_text(s) ==
    CASE s.rval \in {"SUCCESS", "END_OF_FILE"} -> s
      [] s.rval = "0x82" ->
            tio_printf(SetWait(s, "waitForBuffer"), <<"Status: Buffer full">>)
      [] s.rval = "0x89" ->
            IF "waitForBotCancel" \in s.waitflag
            THEN Return(ClearWait(s, "waitForBotCancel"), "SUCCESS")
            ELSE tio_printf(tio_clear_state_for_cancel(SetFlag(s, "cancelPending")),
                            <<"Build cancelled">>)
      [] OTHER -> tio_printf(s, <<ErrorText(s.rval)>>)

\* a switch (rval) for which every 0x89 is the device's own cancel
return_translation_switch_no_abort(s) ==
    CASE s.rval \in {"SUCCESS", "END_OF_FILE"} -> s
      [] s.rval = "0x82" ->
            tio_printf(SetWait(s, "waitForBuffer"), <<"Status: Buffer full">>)
      [] s.rval = "0x89" ->
            tio_printf(tio_clear_state_for_cancel(SetFlag(s, "cancelPending")),
                       <<"Build cancelled">>)
      [] OTHER -> tio_printf(tio_reset(s), <<ErrorText(s.rval)>>)

\* switch (rval)
return_translation_switch(s) ==
    CASE s.rval \in {"SUCCESS", "END_OF_FILE"} -> s
      [] s.rval = "0x82" ->
            tio_printf(SetWait(s, "waitForBuffer"), <<"Status: Buffer full">>)
      [] s.rval = "0x89" ->
            IF "waitForBotCancel" \in s.waitflag
            THEN Return(ClearWait(s, "waitForBotCancel"), "SUCCESS")
            ELSE tio_printf(tio_clear_state_for_cancel(SetFlag(s, "cancelPending")),
                            <<"Build cancelled">>)
      [] OTHER -> tio_printf(tio_reset(s), <<ErrorText(s.rval)>>)

\* an end of gpx_return_translation that decides without its local `waiting`
return_translation_end_unconditional(s, w) ==
    IF waiting_of(s.waitflag) = 0
    THEN LET s1 == IF EndsInText(s.translation) THEN tio_printf(s, <<"NL">>) ELSE s
         IN  tio_printf(s1, <<"ok">>)
    ELSE IF EndsInNewline(s.translation)
         THEN [s EXCEPT !.translation = SubSeq(@, 1, Len(@) - 1)]
         ELSE s

\* if the rval cleared the wait state, we need an ok; w is the local `waiting`
return_translation_end(s, w) ==
    IF w # 0 /\ waiting_of(s.waitflag) = 0
    THEN LET s1 == IF EndsInText(s.translation) THEN tio_printf(s, <<"NL">>) ELSE s
         IN  tio_printf(s1, <<"ok">>)
    ELSE IF EndsInNewline(s.translation)
         THEN [s EXCEPT !.translation = SubSeq(@, 1, Len(@) - 1)]
         ELSE s

\* gpx_daemon after gpx_write_string returned: the response goes upstream
daemon_write(s) ==
    tio_printf(ClearFlag(s, "okPending"), <<"NL">>)

----------------------------------------------------------------------------
(* The session as one value, for the operators above *)

Session ==
    [translation |-> translation, flag |-> flag, waitflag |-> waitflag,
     sec |-> sec, sttb |-> sttb, programState |-> programState,
     positionKnown |-> positionKnown, recorded |-> recorded,
     command_m |-> command_m, selectedFilename |-> selectedFilename,
     heap |-> heap, rval |-> "SUCCESS", fwd |-> <<>>]

Becomes(s) ==
    /\ translation' = s.translation
    /\ flag' = s.flag
    /\ waitflag' = s.waitflag
    /\ sec' = s.sec
    /\ sttb' = s.sttb
    /\ programState' = s.programState
    /\ positionKnown' = s.positionKnown
    /\ recorded' = s.recorded
    /\ selectedFilename' = s.selectedFilename
    /\ heap' = s.heap

----------------------------------------------------------------------------
(* What the environment supplies *)

\* size of gpx->buffer.in less one
BUFFER_MAX == 1023

\* lengths of the host's lines, without the newline
LineLens == {1, BUFFER_MAX - 1, BUFFER_MAX + 1}

NoName == [text |-> "", fold |-> ""]
Names == {[text |-> "ABC.gco", fold |-> "abc.gco"],
          [text |-> "abc.gco", fold |-> "abc.gco"],
          [text |-> "x.gco", fold |-> "x.gco"]}

Base(c) ==
    [length |-> 1, command |-> c, extruder |-> 0, query |-> 0,
     ph |-> "SUCCESS", ph2 |-> "SUCCESS", isReady |-> FALSE, temperature |-> 0,
     sdstatus |-> 0, filename |-> NoName, mb |-> {}, build |-> 0, arg |-> FALSE,
     t |-> 0]

\* a callback for a command that has no packet
NoPacket == [Base(0) EXCEPT !.length = 0]

\* no callback yet in this line
NoCall == [kind |-> "none", command |-> 0, length |-> 0, fmt |-> "", nfwd |-> 0,
           reply |-> NoPacket]

\* a line of which nothing is known yet
NoLine == [w_core |-> FALSE, w_rt |-> FALSE, polled |-> FALSE,
           core_ok |-> FALSE, rt_ok |-> FALSE,
           did135 |-> FALSE, after135 |-> FALSE,
           retry |-> FALSE, qok |-> FALSE, readlen |-> 0, semicolon |-> FALSE,
           name |-> NoName,
           status |-> "SUCCESS", returned |-> "SUCCESS"]

\* the replies of the wait-for-extruder path: the temperature, the tool's and
\* the queue's readiness, the command that starts the wait, the build's state
\* when it is paused and when it is not, a command whose reply times out, and
\* a command without a packet
WaitReplies ==
    {[Base(10) EXCEPT !.query = 2, !.temperature = 205]}
    \cup {[Base(10) EXCEPT !.query = 22, !.isReady = b] : b \in BOOLEAN}
    \cup {[Base(11) EXCEPT !.isReady = b] : b \in BOOLEAN}
    \cup {[Base(24) EXCEPT !.build = b] : b \in {BUILD_NONE, BUILD_PAUSED}}
    \cup {Base(135)}
    \cup {[Base(139) EXCEPT !.ph = "ESIOTIMEOUT"], NoPacket}

\* the replies of the abort and cancel paths
CancelReplies ==
    {[Base(10) EXCEPT !.query = 2, !.temperature = 205]}
    \cup {[Base(11) EXCEPT !.isReady = b] : b \in BOOLEAN}
    \cup {[Base(23) EXCEPT !.mb = m]
            : m \in {{}, {"buildCancelling"}, {"heatShutdown"}}}
    \cup {Base(3), Base(131), Base(139)}
    \cup {[Base(c) EXCEPT !.ph = "0x89"] : c \in {10, 139}}

\* the replies while the daemon reads lines of every length
DaemonReplies ==
    {[Base(10) EXCEPT !.query = 2, !.temperature = 205]}
    \cup {[Base(11) EXCEPT !.isReady = b] : b \in BOOLEAN}
    \cup {Base(133), [Base(139) EXCEPT !.ph = "0x82"]}

\* the replies of the SD card: the next file name, or none at the end of the
\* list, the card's status for M21, and a command without a packet
ListReplies ==
    {[Base(18) EXCEPT !.filename = n] : n \in Names \cup {NoName}}
    \cup {[Base(18) EXCEPT !.sdstatus = 1], NoPacket}

\* what time(NULL) reads: before, at and after the start of an SD print
Times == {StartTime - 2, StartTime, StartTime + 3}

BuildStates == {BUILD_NONE, BUILD_RUNNING, BUILD_FINISHED_NORMALLY,
                BUILD_PAUSED, BUILD_CANCELED, BUILD_CANCELLING}

\* the replies of an SD print: its start, found or not, and the build's state,
\* each at some reading of the clock; the temperature for the implicit M105
PlaybackReplies ==
    {[Base(10) EXCEPT !.query = 2, !.temperature = 205]}
    \cup {[Base(16) EXCEPT !.sdstatus = st, !.t = StartTime] : st \in {0, 7}}
    \cup {[Base(24) EXCEPT !.build = b, !.t = now]
            : b \in BuildStates, now \in Times}

\* the replies around a build: an abort, the start of an SD print, a move
\* that asks for the position, and the build's state before and at the
\* deadline of the start; the temperature for the implicit M105
BuildReplies ==
    {[Base(10) EXCEPT !.query = 2, !.temperature = 205]}
    \cup {Base(c) : c \in {3, 7, 17, 131}}
    \cup {[Base(16) EXCEPT !.t = StartTime]}
    \cup {[Base(24) EXCEPT !.build = b, !.t = now]
            : b \in BuildStates, now \in {StartTime, StartTime + 3}}

\* the target temperatures that the device reports: none and some
Targets == {0, 200}

\* the commands that start a wait: heating a tool or the platform, homing
\* and recalling the home position, a delay, a wait for the button
WaitCommands == {135, 141, 131, 132, 144, 133, 148, 149}

\* the replies of a session that waits: the commands that start a wait, the
\* queue's readiness, the targets
\* of the tools and the platform, and the temperature for the implicit M105
WaitingReplies ==
    {[Base(10) EXCEPT !.query = 2, !.temperature = 205]}
    \cup {Base(c) : c \in WaitCommands}
    \cup {[Base(135) EXCEPT !.extruder = 1]}
    \cup {[Base(11) EXCEPT !.isReady = b] : b \in BOOLEAN}
    \cup {[Base(10) EXCEPT !.query = 32, !.extruder = e, !.temperature = x]
            : e \in {0, 1}, x \in Targets}
    \cup {[Base(10) EXCEPT !.query = 33, !.temperature = x] : x \in Targets}

\* the replies of a session that asks for the position once the queue has
\* drained: a homing move, a wait for the button, the queue's readiness with
\* the position query that follows it and may fail, and the temperature
PositionReplies ==
    {[Base(10) EXCEPT !.query = 2, !.temperature = 205]}
    \cup {Base(131), Base(148), Base(11)}
    \cup {[Base(11) EXCEPT !.isReady = TRUE, !.ph2 = c]
            : c \in {"SUCCESS", "ESIOTIMEOUT"}}

\* the replies of a command that the device queues, refuses or fails, next to
\* the temperature and the tool's readiness, whose query can time out
StatusReplies ==
    {[Base(10) EXCEPT !.query = 2, !.temperature = 205]}
    \cup {[Base(10) EXCEPT !.query = 22, !.isReady = b] : b \in BOOLEAN}
    \cup {[Base(10) EXCEPT !.query = 22, !.ph = "ESIOTIMEOUT"]}
    \cup {[Base(139) EXCEPT !.ph = c] : c \in {"SUCCESS", "0x82"} \cup StatusCodes}

\* M105 asks for the extruder temperature first, then polls
M105First(R) == {r \in R : r.command = 10 /\ r.query = 2}
M105Polls(R) == {r \in R : r.length > 0 /\ r.command \in {10, 11, 23, 24}}

RepliesAt(R) ==
    IF command_m = 105
    THEN IF ncalls = 0 THEN M105First(R) ELSE M105Polls(R)
    ELSE R

ProgramStates == {READY_STATE, RUNNING_STATE, ENDED_STATE}

----------------------------------------------------------------------------
(* gpx_daemon *)

Init ==
    /\ pc = "read"
    /\ translation = <<>>
    /\ flag = {}
    /\ waitflag = {}
    /\ sec = 0
    /\ sttb = <<>>
    /\ programState = READY_STATE
    /\ positionKnown = {}
    /\ recorded = {}
    /\ command_m = 0
    /\ selectedFilename = NoName
    /\ waiting_core = 0
    /\ waiting_rt = 0
    /\ overflow = FALSE
    /\ inrest = -1
    /\ rval = "SUCCESS"
    /\ ncalls = 0
    /\ lastcall = NoCall
    /\ lastline = NoLine
    /\ lineresp = 0
    /\ lineread = FALSE
    /\ heap = [rgs |-> TRUE, arrays |-> 1, strings |-> 0]    \* sttb_init
    /\ cur = 0
    /\ terminator = 0
    /\ result = 0

\* the read loop: strlen of what it leaves in gpx->buffer.in for a line of len
ReadLen(len) == IF len < BUFFER_MAX THEN len ELSE BUFFER_MAX

\* what is left of that line for the next pass
ReadRest(len) == IF len < BUFFER_MAX THEN -1 ELSE len - BUFFER_MAX

\* a pass of the loop that ends in `continue`: the input is swallowed
DaemonSwallow(len) ==
    /\ pc = "read"
    /\ overflow
    /\ inrest \in {-1, len}
    /\ overflow' = (ReadLen(len) = BUFFER_MAX - 1)
    /\ inrest' = ReadRest(len)
    /\ lineresp' = IF inrest = -1 THEN 0 ELSE lineresp
    /\ lineread' = TRUE
    /\ UNCHANGED <<pc, translation, flag, waitflag, sec, sttb, programState,
                   positionKnown, recorded, command_m, selectedFilename,
                   waiting_core, waiting_rt, rval, ncalls, lastcall, lastline,
                   heap, cursor>>

\* a pass that owes the host an ok for every line, waiting or not
DaemonDispatch_ok_always(len, semicolon, m, name) ==
    /\ pc = "read"
    /\ ~overflow
    /\ inrest \in {-1, len}
    /\ overflow' = (ReadLen(len) = BUFFER_MAX - 1)
    /\ inrest' = ReadRest(len)
    /\ lineresp' = IF inrest = -1 THEN 0 ELSE lineresp
    /\ lineread' = TRUE
    /\ flag' = flag \cup {"okPending"}
    /\ waitflag' = waitflag \ {"waitForBuffer"}
    /\ translation' = tio_reset(
            IF ReadLen(len) = BUFFER_MAX - 1 /\ ~semicolon
            THEN tio_printf(Session, <<"(line N) Buffer overflow: ", "NL">>)
            ELSE Session).translation
    /\ waiting_core' = waiting_of(waitflag \ {"waitForBuffer"})
    /\ command_m' = m
    /\ selectedFilename' = IF m = 23 THEN name ELSE selectedFilename
    /\ pc' = "core"
    /\ rval' = "SUCCESS"
    /\ ncalls' = 0
    /\ lastcall' = NoCall
    /\ lastline' = [NoLine EXCEPT !.w_core = waiting_core' # 0,
                                  !.after135 = /\ lastline.after135 \/ lastline.did135
                                               /\ waitflag # {},
                                  !.retry = "waitForBuffer" \in waitflag,
                                  !.readlen = ReadLen(len),
                                  !.name = IF m = 23 THEN name ELSE NoName,
                                  !.semicolon = semicolon]
    /\ UNCHANGED <<sec, sttb, programState, positionKnown, recorded,
                   waiting_rt, heap, cursor>>

\* a pass that hands the line to gpx_write_string, up to gpx_convert_line
DaemonDispatch(len, semicolon, m, name) ==
    /\ pc = "read"
    /\ ~overflow
    /\ inrest \in {-1, len}
    /\ overflow' = (ReadLen(len) = BUFFER_MAX - 1)
    /\ inrest' = ReadRest(len)
    /\ lineresp' = IF inrest = -1 THEN 0 ELSE lineresp
    /\ lineread' = TRUE
    /\ flag' = IF waiting_of(waitflag \ {"waitForBuffer"}) = 0
               THEN flag \cup {"okPending"} ELSE flag \ {"okPending"}
    /\ waitflag' = waitflag \ {"waitForBuffer"}
    /\ translation' = tio_reset(
            IF ReadLen(len) = BUFFER_MAX - 1 /\ ~semicolon
            THEN tio_printf(Session, <<"(line N) Buffer overflow: ", "NL">>)
            ELSE Session).translation
    /\ waiting_core' = waiting_of(waitflag \ {"waitForBuffer"})
    /\ command_m' = m
    /\ selectedFilename' = IF m = 23 THEN name ELSE selectedFilename
    /\ pc' = "core"
    /\ rval' = "SUCCESS"
    /\ ncalls' = 0
    /\ lastcall' = NoCall
    /\ lastline' = [NoLine EXCEPT !.w_core = waiting_core' # 0,
                                  !.after135 = /\ lastline.after135 \/ lastline.did135
                                               /\ waitflag # {},
                                  !.retry = "waitForBuffer" \in waitflag,
                                  !.readlen = ReadLen(len),
                                  !.name = IF m = 23 THEN name ELSE NoName,
                                  !.semicolon = semicolon]
    /\ UNCHANGED <<sec, sttb, programState, positionKnown, recorded,
                   waiting_rt, heap, cursor>>

\* the command parser calls translate_handler, at most max times a line
TranslateHandler(r, max) ==
    /\ pc \in {"core", "m105"}
    /\ rval = "SUCCESS"
    /\ ncalls < max
    /\ LET s == translate_handler(Session, r) IN
        /\ Becomes(s)
        /\ rval' = s.rval
        /\ lastcall' = [kind |-> "handler", command |-> r.command,
                        length |-> r.length, fmt |-> "", nfwd |-> Len(s.fwd),
                        reply |-> r]
        /\ lastline' = [lastline EXCEPT
                !.did135 = \/ @
                           \/ r.command = 135 /\ Len(s.fwd) = 1 /\ s.rval = "SUCCESS",
                !.qok = \/ @
                        \/ /\ r.length > 0 /\ IsQueueable(r.command)
                           /\ Len(s.fwd) = 1 /\ s.rval = "SUCCESS"]
    /\ ncalls' = ncalls + 1
    /\ UNCHANGED <<pc, command_m, waiting_core, waiting_rt, overflow, inrest,
                   lineresp, lineread, cursor>>

\* the command parser calls translate_result
TranslateResult(fmt, max) ==
    /\ pc = "core"
    /\ command_m # 105
    /\ rval = "SUCCESS"
    /\ ncalls < max
    /\ Becomes(translate_result(Session, fmt))
    /\ lastcall' = [NoCall EXCEPT !.kind = "result", !.fmt = fmt]
    /\ ncalls' = ncalls + 1
    /\ UNCHANGED <<pc, command_m, waiting_core, waiting_rt, overflow, inrest,
                   rval, lastline, lineresp, lineread, cursor>>

\* whether a step of the finalization made the buffer longer: it appended ok
AppendedOk(before, after) == Len(after.translation) > Len(before.translation)

\* gpx_convert_line(line) returns code leaving the program in state ps:
\* the rest of gpx_write_string_core, then gpx_return_translation, which
\* either converts "M105" or finishes, and then the daemon writes
ConvertLineReturns(code, ps) ==
    /\ pc = "core"
    /\ IF rval # "SUCCESS" THEN code = rval ELSE code \in ParserCodes
    /\ command_m = 105 /\ code = "SUCCESS" => ncalls > 0
    /\ LET s0 == [Session EXCEPT !.rval = code, !.programState = ps]
           s1 == write_string_core_end(s0, waiting_core)
           w == waiting_of(s1.waitflag)
           s2 == return_translation_begin(s1)
           s3 == return_translation_switch(s2)
           s4 == return_translation_end(s3, w)
           s5 == daemon_write(s4)
           core_ok == "okPending" \notin flag /\ AppendedOk(s0, s1)
       IN  IF NeedsImplicitM105(s2)
           THEN /\ Becomes(s2)
                /\ pc' = "m105"
                /\ command_m' = 105
                /\ waiting_rt' = w
                /\ rval' = "SUCCESS"
                /\ ncalls' = 0
                /\ lastcall' = NoCall
                /\ lastline' = [lastline EXCEPT !.core_ok = core_ok]
                /\ UNCHANGED <<waiting_core, lineresp>>
           ELSE /\ Becomes(s5)
                /\ pc' = "read"
                /\ lineresp' = lineresp + 1
                /\ lastline' = [lastline EXCEPT
                        !.w_core = waiting_core # 0, !.w_rt = w # 0,
                        !.polled = FALSE, !.core_ok = core_ok,
                        !.rt_ok = AppendedOk(s3, s4),
                        !.status = code, !.returned = s4.rval]
                /\ waiting_rt' = 0
                /\ waiting_core' = 0
                /\ rval' = "SUCCESS"
                /\ ncalls' = 0
                /\ lastcall' = NoCall
                /\ UNCHANGED command_m
    /\ UNCHANGED <<overflow, inrest, lineread, cursor>>

\* gpx_convert_line("M105") returns: the rest of gpx_return_translation
ConvertM105Returns(code) ==
    /\ pc = "m105"
    /\ code = IF rval # "SUCCESS" THEN rval ELSE "SUCCESS"
    /\ ncalls > 0
    /\ LET s2 == [Session EXCEPT !.rval = code]
           s3 == return_translation_switch(s2)
           s4 == return_translation_end(s3, waiting_rt)
           s5 == daemon_write(s4)
       IN  /\ Becomes(s5)
           /\ lastline' = [lastline EXCEPT
                   !.w_core = waiting_core # 0, !.w_rt = waiting_rt # 0,
                   !.polled = TRUE,
                   !.rt_ok = AppendedOk(s3, s4),
                   !.status = code, !.returned = s4.rval]
    /\ pc' = "read"
    /\ lineresp' = lineresp + 1
    /\ rval' = "SUCCESS"
    /\ ncalls' = 0
    /\ lastcall' = NoCall
    /\ waiting_core' = 0
    /\ waiting_rt' = 0
    /\ UNCHANGED <<command_m, overflow, inrest, lineread, cursor>>

\* tio_cleanup ends the session
TioCleanup ==
    /\ pc = "read"
    /\ Becomes(tio_cleanup(Session))
    /\ pc' = "stopped"
    /\ UNCHANGED <<command_m, waiting_core, waiting_rt, overflow, inrest, rval,
                   ncalls, lastcall, lastline, lineresp, lineread, cursor>>

----------------------------------------------------------------------------
(* The wait-state engine: host lines of ordinary length, with the replies  *)
(* of the wait-for-extruder path                                            *)

Next ==
    \/ \E sc \in BOOLEAN, m \in {0, 105} : DaemonDispatch(1, sc, m, NoName)
    \/ \E r \in RepliesAt(WaitReplies) : TranslateHandler(r, MaxCalls)
    \/ TranslateResult("message", MaxCalls)
    \/ \E code \in ParserCodes \cup PortErrors, ps \in {READY_STATE, ENDED_STATE} :
            ConvertLineReturns(code, ps)
    \/ \E code \in {"SUCCESS"} \cup PortErrors : ConvertM105Returns(code)

Spec == Init /\ [][Next]_vars

----------------------------------------------------------------------------
(* Abort and cancel: the replies that abort a build, the device's cancel   *)
(* and the host's @clear_cancel                                             *)

NextCancel ==
    \/ \E m \in {0, 105} : DaemonDispatch(1, FALSE, m, NoName)
    \/ \E r \in RepliesAt(CancelReplies) : TranslateHandler(r, MaxCalls)
    \/ TranslateResult("@clear_cancel", MaxCalls)
    \/ \E code \in {"SUCCESS"} \cup PortErrors, ps \in {READY_STATE, RUNNING_STATE} :
            ConvertLineReturns(code, ps)
    \/ \E code \in {"SUCCESS"} \cup PortErrors : ConvertM105Returns(code)

SpecCancel == Init /\ [][NextCancel]_vars

----------------------------------------------------------------------------
(* The daemon's reading of host lines of every length                      *)

NextDaemon ==
    \/ \E len \in LineLens : DaemonSwallow(len)
    \/ \E len \in LineLens, sc \in BOOLEAN, m \in {0, 105} :
            DaemonDispatch(len, sc, m, NoName)
    \/ \E r \in RepliesAt(DaemonReplies) : TranslateHandler(r, MaxCalls)
    \/ \E code \in {"SUCCESS", "ERROR"} \cup PortErrors, ps \in {READY_STATE} :
            ConvertLineReturns(code, ps)
    \/ \E code \in {"SUCCESS"} \cup PortErrors : ConvertM105Returns(code)

SpecDaemon == Init /\ [][NextDaemon]_vars

----------------------------------------------------------------------------
(* The statuses of the device and of the port: a queueable command that is *)
(* queued, refused because the buffer is full, or failed                    *)

NextStatus ==
    \/ DaemonDispatch(1, FALSE, 0, NoName)
    \/ \E r \in RepliesAt(StatusReplies) : TranslateHandler(r, MaxCalls)
    \/ \E code \in ParserCodes \cup StatusCodes \cup {"0x82"} :
            ConvertLineReturns(code, READY_STATE)
    \/ \E code \in {"SUCCESS"} \cup StatusCodes : ConvertM105Returns(code)

SpecStatus == Init /\ [][NextStatus]_vars

\* the daemon is one thread that runs on: a step that can be taken is taken
SpecStatusFair == SpecStatus /\ WF_vars(NextStatus)

----------------------------------------------------------------------------
(* The SD card's file list: M20 lists, M21 asks for the card, M23 selects  *)
(* a file, and the session ends with tio_cleanup                            *)

NextList ==
    \/ \E m \in {20, 21} : DaemonDispatch(1, FALSE, m, NoName)
    \/ \E name \in Names : DaemonDispatch(1, FALSE, 23, name)
    \/ \E r \in RepliesAt(ListReplies) :
            /\ r.filename # NoName => Len(sttb) < MaxFiles
            /\ TranslateHandler(r, MaxCalls)
            /\ heap'.arrays <= MaxArrays
    \/ \E code \in {"SUCCESS", "ERROR"} : ConvertLineReturns(code, READY_STATE)
    \/ TioCleanup

SpecList == Init /\ [][NextList]_vars

----------------------------------------------------------------------------
(* Printing from the SD card: the start of the print and the build's state *)
(* asked for by M27 or polled while the session waits for the start        *)

NextPlayback ==
    \/ \E m \in {0, 27} : DaemonDispatch(1, FALSE, m, NoName)
    \/ \E r \in RepliesAt(PlaybackReplies) : TranslateHandler(r, MaxCalls)
    \/ ConvertLineReturns("SUCCESS", READY_STATE)
    \/ ConvertM105Returns("SUCCESS")

SpecPlayback == Init /\ [][NextPlayback]_vars

----------------------------------------------------------------------------
(* A build that is aborted, started from the SD card, paused on the LCD    *)
(* panel, and asked for its state by M27 and by the implicit M105          *)

\* the callbacks of a line of this scenario: a command and a query after it
MaxBuildCalls == 2

NextBuild ==
    \/ \E m \in {0, 27} : DaemonDispatch(1, FALSE, m, NoName)
    \/ \E r \in RepliesAt(BuildReplies) : TranslateHandler(r, MaxBuildCalls)
    \/ ConvertLineReturns("SUCCESS", READY_STATE)
    \/ ConvertM105Returns("SUCCESS")

SpecBuild == Init /\ [][NextBuild]_vars

----------------------------------------------------------------------------
(* A session that waits for heaters, the queue and the button, and one     *)
(* that asks for the position while the parser learns it from the host     *)

\* the callbacks of a line of this scenario: a command and a query after it
MaxWaitCalls == 2

\* the parser takes the position of some axes from the line it converts
\* (gpx->axis.positionKnown |= ...), before any callback
KnowsPosition(axes) ==
    /\ pc = "core"
    /\ ncalls = 0
    /\ ~(axes \subseteq positionKnown)
    /\ positionKnown' = positionKnown \cup axes
    /\ UNCHANGED <<pc, translation, flag, waitflag, sec, sttb, programState,
                   recorded, command_m, selectedFilename, waiting_core,
                   waiting_rt, overflow, inrest, rval, ncalls, lastcall,
                   lastline, lineresp, lineread, heap, cursor>>

NextWaits ==
    \/ DaemonDispatch(1, FALSE, 0, NoName)
    \/ \E r \in RepliesAt(WaitingReplies) : TranslateHandler(r, MaxWaitCalls)
    \/ ConvertLineReturns("SUCCESS", READY_STATE)
    \/ ConvertM105Returns("SUCCESS")

SpecWaits == Init /\ [][NextWaits]_vars

NextPosition ==
    \/ DaemonDispatch(1, FALSE, 0, NoName)
    \/ \E axes \in {{"X", "Y"}, {"Z"}} : KnowsPosition(axes)
    \/ \E r \in RepliesAt(PositionReplies) : TranslateHandler(r, MaxWaitCalls)
    \/ ConvertLineReturns("SUCCESS", READY_STATE)
    \/ ConvertM105Returns("SUCCESS")

SpecPosition == Init /\ [][NextPosition]_vars

----------------------------------------------------------------------------
(* The translation buffer by its cursor alone: appends of texts of every   *)
(* length, and the resets that start a response afresh                      *)

\* tio_printf of a text of n characters
TioAppend(n) ==
    /\ LET c == tio_vprintf([cur |-> cur, terminator |-> terminator,
                             result |-> result], n)
       IN  /\ cur' = c.cur
           /\ terminator' = c.terminator
           /\ result' = c.result
    /\ UNCHANGED session

\* tio.cur = 0; tio.translation[0] = 0
TioRewind ==
    /\ cur' = 0
    /\ terminator' = 0
    /\ UNCHANGED <<result, session>>

NextBuffer ==
    \/ \E n \in 0..MaxText : TioAppend(n)
    \/ TioRewind

SpecBuffer == Init /\ [][NextBuffer]_vars

----------------------------------------------------------------------------
(* What a response is made of, and the steps that end a line *)

\* how many times `ok` was printed into tr
RECURSIVE OkCount(_)
OkCount(tr) ==
    IF tr = <<>> THEN 0
    ELSE (IF Head(tr) = "ok" THEN 1 ELSE 0) + OkCount(Tail(tr))

Has(tr, tok) == \E i \in 1..Len(tr) : tr[i] = tok

\* the last line of a response that ends in a newline
LastLine(tr) ==
    LET body == SubSeq(tr, 1, Len(tr) - 1)
        from == CHOOSE i \in 1..Len(tr) :
                    /\ i = 1 \/ body[i - 1] = "NL"
                    /\ \A j \in i..Len(body) : body[j] # "NL"
    IN  SubSeq(body, from, Len(body))

\* the lines that gpx_return_translation prints for an error status
ErrorLines == {ErrorText(c) : c \in ErrorCodes}

\* the response ends in a line that starts with ok, or in an Error line
EndsInOkOrError(tr) ==
    /\ Len(LastLine(tr)) > 0
    /\ LastLine(tr)[1] \in {"ok"} \cup ErrorLines

\* the daemon is about to read a new host line and has answered the last one
Answered == pc = "read" /\ inrest = -1 /\ lineresp > 0

\* gpx_return_translation returns and the response goes upstream
Finalizes == pc \in {"core", "m105"} /\ pc' = "read"

\* the finalization is given 0x89 by the device
DeviceCancel ==
    Finalizes /\ lastline'.status = "0x89" /\ "waitForBotCancel" \notin waitflag

\* the finalization is given 0x89 after an abort the bridge asked for
AbortConfirmed ==
    Finalizes /\ lastline'.status = "0x89" /\ "waitForBotCancel" \in waitflag

\* the command parser calls translate_handler for a device packet
HandlerCall ==
    ncalls' = ncalls + 1 /\ lastcall'.kind = "handler" /\ lastcall'.length > 0

\* the command parser calls translate_result for @clear_cancel
ClearCancelCall ==
    ncalls' = ncalls + 1 /\ lastcall'.kind = "result"
        /\ lastcall'.fmt = "@clear_cancel"

----------------------------------------------------------------------------
(* C1: every host line read by the daemon yields exactly one response      *)
(* written upstream, and that response ends either in an ok line or in an  *)
(* Error line.  Stated when the daemon is about to read a new host line:   *)
(* the line it read last has one response, whose last line starts with ok  *)
(* or is an Error line.                                                     *)
C1_OneResponseEndingInOkOrError ==
    pc = "read" /\ inrest = -1 /\ lineread =>
        lineresp = 1 /\ EndsInOkOrError(translation)

----------------------------------------------------------------------------
(* C2: no response to a single host line contains more than one ok,        *)
(* whatever the device replies and return codes within the line were.      *)
C2_AtMostOneOk == Answered => OkCount(translation) <= 1

----------------------------------------------------------------------------
----------------------------------------------------------------------------
(* C4: wait-for-extruder emulation.  After the reply to device command 135 *)
(* the translator's output for the line is empty; when the line then ends  *)
(* with SUCCESS the finalizer converts an implicit M105, whose response    *)
(* starts with the temperature; from that line on, a response has no ok    *)
(* while a wait flag is set at the end of its line, and the response to    *)
(* the first line at whose end every wait flag is clear ends with ok.      *)
C4_WaitForExtruder ==
    /\ lastcall.command = 135 /\ lastcall.nfwd = 1 /\ rval = "SUCCESS" =>
            translation = <<>> /\ waitflag # {}
    /\ Answered /\ lastline.polled /\ lastline.status = "SUCCESS" =>
            Len(translation) > 1 /\ translation[1] = " T"
    /\ Answered /\ (lastline.did135 \/ lastline.after135) /\ waitflag # {} =>
            OkCount(translation) = 0
    /\ Answered /\ lastline.after135 /\ waitflag = {} =>
            LastLine(translation) = <<"ok">>

----------------------------------------------------------------------------
(* C5: the wait-cleared ok is appended by the dispatch of a line exactly   *)
(* when the session was waiting before the line was handed to the command  *)
(* parser and is not waiting when finalization ends.                        *)
C5_SnapshotBeforeParser ==
    Answered =>
        ((lastline.core_ok \/ lastline.rt_ok)
            <=> (lastline.w_core /\ waitflag = {}))

(* C5, as the code has it: gpx_return_translation appends the wait-cleared *)
(* ok exactly when the session was waiting when gpx_return_translation was *)
(* entered, after the command parser returned, and is not waiting when it  *)
(* ends; otherwise it appends no ok and a trailing newline is stripped.    *)
C5_SnapshotAtFinalizer ==
    Answered =>
        /\ lastline.rt_ok <=> (lastline.w_rt /\ waitflag = {})
        /\ lastline.rt_ok => LastLine(translation) = <<"ok">>
        /\ ~lastline.rt_ok =>
                ~(Len(translation) > 1 /\ translation[Len(translation) - 1] = "NL")

\* a line dispatched while not waiting started a wait that the polls of the
\* implicit M105 cleared: the finalizer appended the ok
C5_Witness ==
    Answered /\ lastline.rt_ok /\ ~lastline.w_core /\ lastline.polled

----------------------------------------------------------------------------
(* C6: when a line is dispatched while the session is waiting, the wait is *)
(* cleared during the line and the line's status is rendered as an Error   *)
(* line, the response has an ok after the Error line.                       *)
C6_OkAfterErrorLine ==
    Answered /\ lastline.w_core /\ waitflag = {}
             /\ lastline.status \in ErrorCodes =>
        /\ translation[1] = ErrorText(lastline.status)
        /\ LastLine(translation) = <<"ok">>

----------------------------------------------------------------------------
(* C7: when finalization is given 0x89 and waitForBotCancel is not set,    *)
(* afterwards cancelPending is set, the response has Build cancelled, the  *)
(* program state is READY, getPosWhenReady is clear, waitForEmptyQueue is  *)
(* the only wait flag set, and waitClearedByCancel is set exactly when the *)
(* session was waiting when the cancel arrived.                             *)
C7_CancelEffects ==
    /\ "cancelPending" \in flag'
    /\ Has(translation', "Build cancelled")
    /\ programState' = READY_STATE
    /\ "getPosWhenReady" \notin flag'
    /\ waitflag' = {"waitForEmptyQueue"}

C7_DeviceCancelIff ==
    [][DeviceCancel =>
        /\ C7_CancelEffects
        /\ "waitClearedByCancel" \in flag' <=> waitflag # {}]_vars

(* C7, as the code has it: the same, but waitClearedByCancel is set when   *)
(* the session was waiting when the cancel arrived and is otherwise left   *)
(* as it was.                                                               *)
C7_DeviceCancel ==
    [][DeviceCancel =>
        /\ C7_CancelEffects
        /\ "waitClearedByCancel" \in flag'
                <=> (waitflag # {} \/ "waitClearedByCancel" \in flag)]_vars

\* the device cancelled while the session was not waiting, after a cancel
\* that had cleared a wait
C7_Witness ==
    /\ Answered /\ lastline.status = "0x89" /\ lastline.returned = "0x89"
    /\ ~lastline.w_rt
    /\ "waitClearedByCancel" \in flag

----------------------------------------------------------------------------
(* C8: while cancelPending is set, a queueable device command is not       *)
(* forwarded to port_handler, its translate call returns SUCCESS and       *)
(* changes no wait flag; a command that is not queueable is still          *)
(* forwarded; and cancelPending is cleared by nothing but @clear_cancel.   *)
C8_CancelPendingDrops ==
    [][/\ "cancelPending" \in flag /\ HandlerCall =>
            IF IsQueueable(lastcall'.command)
            THEN /\ lastcall'.nfwd = 0
                 /\ rval' = "SUCCESS"
                 /\ waitflag' = waitflag
            ELSE lastcall'.nfwd > 0
       /\ "cancelPending" \in flag /\ "cancelPending" \notin flag' =>
            ClearCancelCall]_vars

\* a queueable command was dropped while the cancel was pending
C8_Witness ==
    /\ "cancelPending" \in flag
    /\ lastcall.kind = "handler" /\ lastcall.command = 139 /\ lastcall.nfwd = 0

----------------------------------------------------------------------------
(* C9: when finalization is given 0x89 while waitForBotCancel is set, the  *)
(* cancel is consumed silently: waitForBotCancel is cleared, the returned  *)
(* status is SUCCESS, the step sets neither cancelPending nor any other    *)
(* session flag, changes no other wait flag, and appends no Build          *)
(* cancelled.                                                               *)
C9_AbortConsumedSilently ==
    [][AbortConfirmed =>
        /\ waitflag' = waitflag \ {"waitForBotCancel"}
        /\ lastline'.returned = "SUCCESS"
        /\ flag' = flag
        /\ ~Has(translation', "Build cancelled")]_vars

\* the 0x89 that confirms the bridge's abort has been consumed
C9_Witness ==
    Answered /\ lastline.status = "0x89" /\ lastline.returned = "SUCCESS"

----------------------------------------------------------------------------
(* C10: @clear_cancel, when cancelPending is set, clears it and sets       *)
(* waitForEmptyQueue; when cancelPending is clear and the program state is *)
(* RUNNING it sets only waitForCancelSync and leaves cancelPending and     *)
(* waitForEmptyQueue as they were; in both cases it appends no text and    *)
(* does not consume okPending.                                              *)
C10_ClearCancel ==
    [][ClearCancelCall =>
        /\ translation' = translation
        /\ "okPending" \in flag' <=> "okPending" \in flag
        /\ "cancelPending" \in flag =>
                /\ flag' = flag \ {"cancelPending"}
                /\ waitflag' = waitflag \cup {"waitForEmptyQueue"}
        /\ "cancelPending" \notin flag /\ programState = RUNNING_STATE =>
                /\ flag' = flag
                /\ waitflag' = waitflag \cup {"waitForCancelSync"}]_vars

\* @clear_cancel came first on a line that owes an ok, after a device cancel
C10_Witness ==
    /\ lastcall.kind = "result" /\ lastcall.fmt = "@clear_cancel"
    /\ "okPending" \in flag
    /\ "waitClearedByCancel" \in flag
    /\ "waitForEmptyQueue" \in waitflag

----------------------------------------------------------------------------
(* C11: buffer-full backpressure.  When the device answers 0x82 to a       *)
(* queueable packet of a host line, the response to that line is Status:   *)
(* Buffer full and waitForBuffer is set; when the queueable command of the *)
(* next line succeeds, waitForBuffer is clear and, no wait being left, the *)
(* response to that line has an ok.                                         *)
C11_BufferFull ==
    /\ Answered /\ lastline.status = "0x82" =>
            /\ translation = <<"Status: Buffer full", "NL">>
            /\ "waitForBuffer" \in waitflag
    /\ Answered /\ lastline.retry /\ lastline.qok
                /\ lastline.status = "SUCCESS" =>
            /\ "waitForBuffer" \notin waitflag
            /\ waitflag = {} => OkCount(translation) >= 1

----------------------------------------------------------------------------
(* C12: for every status other than SUCCESS, end of file, 0x82 and 0x89    *)
(* given to the finalizer, the text accumulated for the line is discarded  *)
(* and the response is the one status line of that code (followed by the   *)
(* ok of a wait that was cleared), the status is returned unchanged, and   *)
(* no wait flag and no session flag is modified (okPending is cleared by   *)
(* gpx_write_string_core before the finalizer runs).                        *)
C12_StatusLineOnly ==
    [][Finalizes /\ lastline'.status \in StatusCodes =>
        /\ translation' =
                <<ErrorText(lastline'.status), "NL">>
                \o (IF lastline'.w_rt /\ waitflag' = {}
                    THEN <<"ok", "NL">> ELSE <<>>)
        /\ lastline'.returned = lastline'.status
        /\ waitflag' = waitflag
        /\ flag' = flag \ {"okPending"}]_vars

\* a line that had printed its ok and started a wait ended in a CRC error
C12_Witness ==
    /\ Answered /\ lastline.status = "ESIOCRC" /\ ~lastline.w_core
    /\ waitflag = {"waitForExtruderA"}
    /\ translation = <<ErrorText("ESIOCRC"), "NL">>

----------------------------------------------------------------------------
(* The SD card's file list *)

\* what a callback appended to the buffer, after the ok it owed
Added ==
    SubSeq(translation',
           Len(translation) + (IF "okPending" \in flag THEN 1 ELSE 0) + 1,
           Len(translation'))

\* a successful reply to device command 18 that is not taken for M21's
ListingReply ==
    /\ HandlerCall /\ lastcall'.command = 18 /\ lastcall'.nfwd = 1
    /\ rval' = "SUCCESS"
    /\ ~("listingFiles" \notin flag /\ command_m = 21)

\* the command parser calls translate_handler for M23, which has no packet
SelectCall ==
    /\ ncalls' = ncalls + 1 /\ lastcall'.kind = "handler"
    /\ lastcall'.length = 0 /\ command_m = 23

(* C13: for every SD listing, Begin file list is emitted once before any   *)
(* file name and End file list once after all of them, the names are       *)
(* emitted in the order the device yields them, and listingFiles is set    *)
(* exactly between the Begin and the End.  Stated reply by reply: the      *)
(* reply that finds listingFiles clear emits Begin file list and then its  *)
(* own text, every other reply emits its own text only, at the end of the  *)
(* buffer; that text is the name, or End file list for the empty name;     *)
(* listingFiles is set after a name and clear after the End, and nothing   *)
(* but such a reply changes it while the session runs.                      *)
C13_ListingBracketed ==
    [][/\ ListingReply =>
            /\ Added = (IF "listingFiles" \notin flag
                        THEN <<"NL", "Begin file list", "NL">> ELSE <<>>)
                       \o <<IF lastcall'.reply.filename.text = ""
                            THEN "End file list"
                            ELSE lastcall'.reply.filename.text>>
            /\ "listingFiles" \in flag' <=> lastcall'.reply.filename.text # ""
       /\ ("listingFiles" \in flag') # ("listingFiles" \in flag)
                /\ pc' # "stopped" => ListingReply]_vars

\* one line listed two files: Begin, both names and End are in its response
C13_Witness ==
    /\ pc = "core" /\ "listingFiles" \notin flag /\ Len(sttb) = 2
    /\ translation = <<"ok", "NL", "Begin file list", "NL",
                       sttb[1].text, sttb[2].text, "End file list">>

----------------------------------------------------------------------------
(* C14: after an SD listing the file name cache holds the listed names in  *)
(* listing order (a listing empties the cache when it begins, each name is *)
(* appended, nothing else writes it), and an M23 whose name equals a       *)
(* cached name ignoring case is answered with the first such cached name,  *)
(* in its cached case, in the File opened and the File selected line; when *)
(* no cached name matches, the host's name is used as it is.                *)
C14_CachedName ==
    [][/\ ListingReply =>
            sttb' = (IF "listingFiles" \notin flag THEN <<>> ELSE sttb)
                    \o (IF lastcall'.reply.filename.text = "" THEN <<>>
                        ELSE <<lastcall'.reply.filename>>)
       /\ sttb' # sttb /\ pc' # "stopped" => ListingReply
       /\ SelectCall =>
            LET hits == {i \in 1..Len(sttb) :
                            sttb[i].fold = selectedFilename.fold}
                answer == IF hits = {} THEN selectedFilename.text
                          ELSE sttb[CHOOSE k \in hits : \A j \in hits : k <= j].text
            IN  /\ Added = <<"NL", "File opened:", answer, " Size:0",
                             "NL", "File selected:", answer>>
                /\ selectedFilename'.text = answer]_vars

\* the card lists ABC.gco before abc.gco, and the host's abc.gco is answered
\* with ABC.gco
C14_Witness ==
    /\ lastcall.kind = "handler" /\ lastcall.length = 0 /\ command_m = 23
    /\ "listingFiles" \notin flag
    /\ Len(sttb) = 2 /\ sttb[1].text = "ABC.gco" /\ sttb[2].text = "abc.gco"
    /\ lastline.name.text = "abc.gco"
    /\ selectedFilename.text = "ABC.gco"
    /\ Has(translation, "ABC.gco") /\ ~Has(translation, "abc.gco")

----------------------------------------------------------------------------
(* C17: after tio_initialize, any sequence of SD listings and tio_cleanup, *)
(* no allocation of the string table is live: every backing array and      *)
(* every string copy has been freed.                                        *)
C17_NoLiveAllocation ==
    pc = "stopped" => heap.arrays = 0 /\ heap.strings = 0

----------------------------------------------------------------------------
(* The build's state *)

\* a successful reply to device command 24 handled by the routine check
RoutineStatus ==
    /\ HandlerCall /\ lastcall'.command = 24 /\ lastcall'.nfwd = 1
    /\ rval' = "SUCCESS"
    /\ ~("waitForStart" \in waitflag \/ command_m = 27)

\* a successful reply to device command 24 handled as an M27 response
M27Reply ==
    /\ HandlerCall /\ lastcall'.command = 24 /\ lastcall'.nfwd = 1
    /\ rval' = "SUCCESS"
    /\ "waitForStart" \in waitflag \/ command_m = 27

\* a successful reply to device command 16 whose file was found
StartReply ==
    /\ HandlerCall /\ lastcall'.command = 16 /\ lastcall'.nfwd = 1
    /\ rval' = "SUCCESS"
    /\ lastcall'.reply.sdstatus # 7

(* C15: in the routine check of the build's state a status of PAUSED sets  *)
(* waitForUnpause and emits the echo that asks for the unpause button once *)
(* per transition into PAUSED: the echo is emitted when waitForUnpause was *)
(* clear, and not again when it was already set.                            *)
C15_EchoOncePerPause ==
    [][RoutineStatus /\ lastcall'.reply.build = BUILD_PAUSED =>
        /\ "waitForUnpause" \in waitflag'
        /\ Has(Added, "// echo: Waiting for unpause button on the LCD panel")
                <=> "waitForUnpause" \notin waitflag]_vars

----------------------------------------------------------------------------
----------------------------------------------------------------------------
(* C18: after any sequence of appends of any lengths the cursor does not   *)
(* exceed the capacity of the buffer and the NUL is at the cursor; an      *)
(* append returns the number of characters it appended, which is none when *)
(* the buffer is full.                                                      *)
C18_CursorWithinCapacity ==
    [][/\ cur' <= TranslationSize
       /\ terminator' = cur'
       /\ cur' >= cur => result' = cur' - cur]_vars

----------------------------------------------------------------------------
(* C19: when the daemon reads a host line that reaches the input limit and *)
(* has no semicolon, the response written upstream for it contains the     *)
(* Buffer overflow warning.                                                 *)
C19_OverflowWarned ==
    /\ pc = "read" /\ lineresp > 0
    /\ lastline.readlen >= BUFFER_MAX - 1 /\ ~lastline.semicolon
    => Has(translation, "(line N) Buffer overflow: ")

----------------------------------------------------------------------------
(* C20: the daemon discards what it read without dispatching it only when  *)
(* that is the remainder of a host line longer than the input limit, and   *)
(* such a remainder is discarded, not dispatched: every pass that swallows *)
(* its input is in the middle of a host line, and every pass that          *)
(* dispatches starts at the beginning of one.                               *)
C20_DiscardsOnlyRemainder ==
    [][/\ pc = "read" /\ pc' = "read" => inrest # -1
       /\ pc = "read" /\ pc' = "core" => inrest = -1]_vars

----------------------------------------------------------------------------
(* The daemon's line, the implicit poll and a failing command               *)

\* the daemon hands a line to gpx_write_string
Dispatches == pc = "read" /\ pc' = "core"

\* C21: at the start of every line the daemon dispatches the translation
\* buffer is empty, waitForBuffer is clear and okPending is set exactly when
\* no wait flag is set; when the line is finished okPending is clear
C21_LineStartsClean ==
    [][/\ Dispatches =>
            /\ translation' = <<>>
            /\ "waitForBuffer" \notin waitflag'
            /\ "okPending" \in flag' <=> waitflag' = {}
       /\ Finalizes => "okPending" \notin flag']_vars

\* a line is dispatched that repeats one the buffer was full for: the buffer
\* wait is dropped and the ok is owed again
C21_Witness ==
    /\ pc = "core" /\ ncalls = 0
    /\ lastline.retry
    /\ translation = <<>>
    /\ waitflag = {}
    /\ "okPending" \in flag

\* gpx_return_translation converts the implicit M105
IssuesM105 == pc = "core" /\ pc' = "m105"

\* the line's text is empty when gpx_return_translation looks at it: no
\* callback printed and gpx_write_string_core had no ok to write
NothingPrinted == translation = <<>> /\ "okPending" \notin flag

\* C22: the implicit M105 is issued exactly when the parser's status is
\* SUCCESS, the session is waiting and the translation buffer is empty; it is
\* issued at most once a line, whatever it prints, and the line's
\* finalization ends
C22_ImplicitPollOnce ==
    /\ [][/\ IssuesM105 =>
                rval = "SUCCESS" /\ waitflag # {} /\ NothingPrinted
          /\ pc = "core" /\ pc' = "read" =>
                ~(lastline'.status = "SUCCESS" /\ waitflag # {} /\ NothingPrinted)
          /\ pc = "m105" => pc' \in {"m105", "read"}
          /\ pc = "m105" /\ pc' = "read" => lastline'.polled]_vars
    /\ (pc = "m105") ~> (pc = "read")

\* a line ended after its one poll, and the session still waits with nothing
\* but the status line in the buffer
C22_Witness ==
    /\ Answered
    /\ lastline.polled
    /\ waitflag # {}
    /\ lastline.status # "SUCCESS"

\* port_handler failed for the command just forwarded
PortFailure ==
    /\ HandlerCall
    /\ lastcall'.nfwd = 1
    /\ lastcall'.reply.ph # "SUCCESS"

\* C29: when port_handler fails translate_handler returns its status and
\* changes no wait flag, no session flag but okPending, not sec and not the
\* filename cache: all it did is write the ok that was owed
C29_FailureChangesNothing ==
    [][PortFailure =>
            /\ rval' = lastcall'.reply.ph
            /\ waitflag' = waitflag
            /\ flag' = flag \ {"okPending"}
            /\ sec' = sec
            /\ sttb' = sttb
            /\ programState' = programState
            /\ Added = <<>>
            /\ Len(translation') =
                    Len(translation) + (IF "okPending" \in flag THEN 1 ELSE 0)]_vars

\* a command failed while the session was waiting
C29_Witness ==
    /\ pc = "m105"
    /\ lastcall.kind = "handler" /\ lastcall.nfwd = 1
    /\ lastcall.reply.ph = "ESIOTIMEOUT"
    /\ rval = "ESIOTIMEOUT"
    /\ waitflag # {}

----------------------------------------------------------------------------
(* The build's state, after the start, an abort and a pause *)

\* the M27 branch breaks before its switch: the start is not due yet
Suppressed ==
    /\ sec # 0 /\ lastcall'.reply.t < sec
    /\ lastcall'.reply.build # BUILD_RUNNING

\* the wait flags as case 24 hands them to either of its branches
BranchWaits ==
    IF lastcall'.reply.build \in {BUILD_RUNNING, BUILD_PAUSED, BUILD_CANCELLING}
    THEN waitflag ELSE waitflag \ {"waitForBotCancel"}

(* C23: in the M27 branch, when the report is not suppressed, CANCELED     *)
(* emits SD printing cancelled. and Done printing file and clears every    *)
(* wait flag and getPosWhenReady; FINISHED_NORMALLY emits only Done        *)
(* printing file and changes no flag; RUNNING clears the deadline and      *)
(* waitForStart; NONE, PAUSED and CANCELLING emit their line and leave     *)
(* waitForStart and the deadline as they are.                               *)
C23_M27Report ==
    [][M27Reply /\ ~Suppressed =>
        LET b == lastcall'.reply.build IN
        /\ b = BUILD_CANCELED =>
                /\ Added = <<"NL", "SD printing cancelled.", "NL",
                             "NL", "Done printing file", "NL">>
                /\ waitflag' = {}
                /\ flag' = flag \ {"okPending", "getPosWhenReady"}
                /\ sec' = sec
        /\ b = BUILD_FINISHED_NORMALLY =>
                /\ Added = <<"NL", "Done printing file", "NL">>
                /\ waitflag' = BranchWaits
                /\ flag' = flag \ {"okPending"}
                /\ sec' = sec
        /\ b = BUILD_RUNNING =>
                /\ Added = <<"NL", "SD printing byte on line N/0">>
                /\ sec' = 0
                /\ waitflag' = waitflag \ {"waitForStart"}
                /\ flag' = flag \ {"okPending"}
        /\ b \in {BUILD_NONE, BUILD_PAUSED, BUILD_CANCELLING} =>
                /\ Added = <<"NL",
                             CASE b = BUILD_NONE -> "Not SD printing"
                               [] b = BUILD_PAUSED -> "SD printing paused at line N"
                               [] OTHER -> "SD printing sleeping at line N",
                             "NL">>
                /\ "waitForStart" \in waitflag' <=> "waitForStart" \in waitflag
                /\ waitflag' = BranchWaits
                /\ sec' = sec
                /\ flag' = flag \ {"okPending"}]_vars

\* M27 found the print cancelled while the session waited for the queue and
\* for the position: both lines are there, nothing is waited for any more
C23_Witness ==
    /\ pc = "core" /\ lastline.w_core /\ command_m = 27
    /\ lastcall.command = 24 /\ lastcall.reply.build = BUILD_CANCELED
    /\ Has(translation, "SD printing cancelled.")
    /\ Has(translation, "Done printing file")
    /\ waitflag = {}
    /\ "getPosWhenReady" \notin flag

\* a successful reply to one of the device's abort commands
AbortReply ==
    /\ HandlerCall /\ lastcall'.command \in {3, 7, 17} /\ lastcall'.nfwd = 1
    /\ rval' = "SUCCESS"

(* C24: a successful reply to device command 3, 7 or 17 clears every other *)
(* wait flag and sets waitForBotCancel; the flag stays set across a build  *)
(* status of RUNNING, PAUSED or CANCELLING and is cleared by a build       *)
(* status reply with any other status, in the M27 branch and in the        *)
(* routine check, also when the report is suppressed by the deadline.      *)
C24_BotCancelLifecycle ==
    [][/\ AbortReply => waitflag' = {"waitForBotCancel"}
       /\ (M27Reply \/ RoutineStatus) /\ "waitForBotCancel" \in waitflag =>
            ("waitForBotCancel" \in waitflag'
                <=> lastcall'.reply.build
                        \in {BUILD_RUNNING, BUILD_PAUSED, BUILD_CANCELLING})
       /\ (M27Reply \/ RoutineStatus) /\ "waitForBotCancel" \notin waitflag =>
            "waitForBotCancel" \notin waitflag']_vars

\* while the abort is awaited and an SD print is not due yet, the build is
\* reported as still cancelling: nothing is printed and the abort wait stays
C24_Witness ==
    /\ pc = "core"
    /\ lastcall.command = 24 /\ lastcall.nfwd = 1
    /\ lastcall.reply.build = BUILD_CANCELLING
    /\ lastcall.reply.t < sec
    /\ waitflag = {"waitForBotCancel", "waitForStart"}
    /\ ~Has(translation, "SD printing sleeping at line N")

(* C25: in the routine check NONE or RUNNING while waitForUnpause is set   *)
(* sets waitForEmptyQueue and clears waitForUnpause; every status other    *)
(* than PAUSED clears waitForUnpause; a status other than NONE and RUNNING *)
(* never sets waitForEmptyQueue; NONE or RUNNING without waitForUnpause    *)
(* changes no wait flag.                                                    *)
C25_RoutineCheck ==
    [][RoutineStatus =>
        LET b == lastcall'.reply.build IN
        /\ b \in {BUILD_NONE, BUILD_RUNNING} /\ "waitForUnpause" \in waitflag =>
                waitflag' = (BranchWaits \cup {"waitForEmptyQueue"})
                                \ {"waitForUnpause"}
        /\ b # BUILD_PAUSED => "waitForUnpause" \notin waitflag'
        /\ b \notin {BUILD_NONE, BUILD_RUNNING} =>
                ("waitForEmptyQueue" \in waitflag'
                    <=> "waitForEmptyQueue" \in waitflag)
        /\ b \in {BUILD_NONE, BUILD_RUNNING} /\ "waitForUnpause" \notin waitflag =>
                waitflag' = BranchWaits]_vars

\* the pause on the LCD panel is over: the session now waits for the queue
C25_Witness ==
    /\ pc \in {"core", "m105"} /\ lastline.w_core
    /\ lastcall.command = 24 /\ lastcall.reply.build = BUILD_RUNNING
    /\ waitflag = {"waitForEmptyQueue"}
    /\ "getPosWhenReady" \notin flag
    /\ Has(translation, "SD printing byte on line N/0") = FALSE

----------------------------------------------------------------------------
(* The waits: how they start, and how the queue and the targets end them *)

\* a successful reply to device command 11
ReadyReply ==
    /\ HandlerCall /\ lastcall'.command = 11 /\ lastcall'.nfwd >= 1
    /\ lastcall'.reply.ph = "SUCCESS"

(* C26: on a successful is-ready reply, if the device is ready              *)
(* waitForEmptyQueue and waitForButton are cleared and, when                *)
(* getPosWhenReady is set, exactly one position query is issued, whose      *)
(* reply is translated while getPosWhenReady is still set: the device's     *)
(* value is recorded for every axis that is not in positionKnown and for    *)
(* none that is; after it getPosWhenReady is clear.  If the device is not   *)
(* ready no wait flag and no session flag changes and no query is issued.   *)
(* The ok that was owed is written before the command is sent, as for any   *)
(* command; a position query that fails records and prints nothing.         *)
C26_ReadyAsksPosition ==
    [][ReadyReply =>
        LET r == lastcall'.reply IN
        /\ rval' = "SUCCESS"
        /\ positionKnown' = positionKnown
        /\ r.isReady /\ "getPosWhenReady" \in flag =>
                /\ waitflag' = waitflag \ {"waitForEmptyQueue", "waitForButton"}
                /\ lastcall'.nfwd = 2
                /\ flag' = flag \ {"okPending", "getPosWhenReady"}
                /\ r.ph2 = "SUCCESS" =>
                        /\ recorded' = recorded \cup (Axes \ positionKnown)
                        /\ Added = <<" X:Y:Z:E:">>
                /\ r.ph2 # "SUCCESS" => recorded' = recorded /\ Added = <<>>
        /\ r.isReady /\ "getPosWhenReady" \notin flag =>
                /\ waitflag' = waitflag \ {"waitForEmptyQueue", "waitForButton"}
                /\ lastcall'.nfwd = 1
                /\ flag' = flag \ {"okPending"}
                /\ recorded' = recorded /\ Added = <<>>
        /\ ~r.isReady =>
                /\ waitflag' = waitflag
                /\ lastcall'.nfwd = 1
                /\ flag' = flag \ {"okPending"}
                /\ recorded' = recorded /\ Added = <<>>]_vars

\* the queue has drained after a homing move while the host had given the
\* position of X and Y: the device's position is printed and taken for Z, A
\* and B only
C26_Witness ==
    /\ lastcall.command = 11 /\ lastcall.nfwd = 2
    /\ lastcall.reply.isReady /\ lastcall.reply.ph2 = "SUCCESS"
    /\ positionKnown = {"X", "Y"}
    /\ recorded = {"Z", "A", "B"}
    /\ "getPosWhenReady" \notin flag
    /\ "waitForEmptyQueue" \notin waitflag
    /\ Has(translation, " X:Y:Z:E:")

\* a successful reply to the tool query q of device command 10
TargetReply(q) ==
    /\ HandlerCall /\ lastcall'.command = 10 /\ lastcall'.reply.query = q
    /\ lastcall'.nfwd = 1 /\ rval' = "SUCCESS"

\* the wait flag of the tool that query 32 asked
ToolWait == IF lastcall'.reply.extruder = 0
            THEN "waitForExtruderA" ELSE "waitForExtruderB"

(* C27: query 32 reporting a target of 0 while the session is in a wait    *)
(* clears the wait flag of the queried extruder (A for tool 0, B           *)
(* otherwise) and no other; query 33 reporting 0 while in a wait clears    *)
(* waitForPlatform; a target that is not 0 changes no wait flag.           *)
C27_ZeroTargetClears ==
    [][/\ TargetReply(32) /\ lastcall'.reply.temperature = 0 /\ waitflag # {} =>
            waitflag' = waitflag \ {ToolWait}
       /\ TargetReply(33) /\ lastcall'.reply.temperature = 0 /\ waitflag # {} =>
            waitflag' = waitflag \ {"waitForPlatform"}
       /\ (TargetReply(32) \/ TargetReply(33)) /\ lastcall'.reply.temperature # 0 =>
            waitflag' = waitflag]_vars

(* C27, as the code has it: a target of 0 clears the flag only when the    *)
(* session waits and waitForEmptyQueue is clear; while the queue is still  *)
(* waited for, as with a target that is not 0, no wait flag changes.       *)
C27_ZeroTargetClearsOnceQueueEmpty ==
    [][/\ TargetReply(32) =>
            waitflag' = IF /\ lastcall'.reply.temperature = 0
                           /\ "waitForEmptyQueue" \notin waitflag
                        THEN waitflag \ {ToolWait} ELSE waitflag
       /\ TargetReply(33) =>
            waitflag' = IF /\ lastcall'.reply.temperature = 0
                           /\ "waitForEmptyQueue" \notin waitflag
                        THEN waitflag \ {"waitForPlatform"} ELSE waitflag]_vars

\* the queue had drained and the tool was still heating when its target was
\* found to be 0: the wait for the tool is over, the one for the platform not
C27_Witness ==
    /\ lastcall.command = 10 /\ lastcall.reply.query = 32
    /\ lastcall.reply.extruder = 0 /\ lastcall.reply.temperature = 0
    /\ lastline.w_core
    /\ waitflag = {"waitForPlatform"}
    /\ Has(translation, " /0")

\* a successful reply to a command that starts a wait
WaitCommandReply ==
    /\ HandlerCall /\ lastcall'.command \in WaitCommands /\ lastcall'.nfwd = 1
    /\ rval' = "SUCCESS"

(* C28: a successful reply to a command that starts a wait empties the     *)
(* translation buffer, with any ok it held, and sets exactly: 135          *)
(* waitForEmptyQueue and the wait of the addressed extruder; 141           *)
(* waitForEmptyQueue and waitForPlatform; 131, 132 and 144                 *)
(* waitForEmptyQueue and getPosWhenReady; 133 waitForEmptyQueue; 148 and   *)
(* 149 waitForButton only; every other wait flag but waitForBuffer is      *)
(* left as it was.                                                          *)
C28_WaitCommands ==
    [][WaitCommandReply =>
        LET c == lastcall'.command IN
        /\ translation' = <<>>
        /\ waitflag' = (waitflag \ {"waitForBuffer"}) \cup
                CASE c = 135 -> {"waitForEmptyQueue", ToolWait}
                  [] c = 141 -> {"waitForEmptyQueue", "waitForPlatform"}
                  [] c \in {148, 149} -> {"waitForButton"}
                  [] OTHER -> {"waitForEmptyQueue"}
        /\ flag' = (flag \ {"okPending"}) \cup
                (IF c \in {131, 132, 144} THEN {"getPosWhenReady"} ELSE {})
        /\ sec' = sec]_vars

\* the first command of a line that owed an ok asks for the button: the ok
\* is gone with the buffer and the session waits for the button alone
C28_Witness ==
    /\ pc = "core" /\ ncalls = 1 /\ ~lastline.w_core
    /\ lastcall.command = 148
    /\ translation = <<>>
    /\ "okPending" \notin flag
    /\ waitflag = {"waitForButton"}

====
